---- MODULE Spec2Model ----
(***************************************************************************)
(* The loan transaction core of libapp: BorrowService.borrow_book and      *)
(* BorrowService.return_book running in concurrent sessions against a      *)
(* PostgreSQL database (READ COMMITTED, SELECT ... FOR UPDATE row locks,    *)
(* optimistic version_id on Book), wrapped by the db_retry decorator.       *)
(*                                                                          *)
(* Spec      : the borrow/return state machine over the book and            *)
(*             borrow_record tables.                                        *)
(* RetrySpec : the db_retry wrapper around an operation whose successive    *)
(*             invocations follow a script of outcomes.                     *)
(* LimiterSpec : SlidingWindowRateLimiter.is_allowed under sequences of     *)
(*             checks with a non-decreasing clock.                          *)
(* ApiSpec   : one HTTP request after another through the dependencies of   *)
(*             its route, the endpoint and the exception handlers.          *)
(***************************************************************************)
EXTENDS Integers, Sequences, FiniteSets

\* ---------------------------------------------------------------- bounds
NumHot == 2
MaxCopies == 2
NumMembers == 2
NumSessions == 2
MaxCalls == 3
MaxFaults == 1
ScriptLen == 5
NumClients == 2
MaxCapacity == 2
MaxChecks == 4
MaxRequests == 3
MaxMeasured == 3

\* ------------------------------------------------------ program constants
MAX_ACTIVE_BORROWS == 5
max_retries == 3
WINDOW == 60

\* ------------------------------------------------------------ identifiers
\* Books 1..NumHot are the books whose stock varies; the MAX_ACTIVE_BORROWS
\* books after them are single-copy books that member 1 may already hold.
HotBooks == 1..NumHot
Books == 1..(NumHot + MAX_ACTIVE_BORROWS)
Members == 1..NumMembers
Sessions == 1..NumSessions
\* the client addresses the limiter sees
ClientIds == 1..NumClients
\* a uuid that is in no table
NoId == 0

BORROWED == "borrowed"
RETURNED == "returned"

VARIABLES
    book,        \* table book: id -> row (total_copies, available_copies, version_id)
    records,     \* table borrow_record in insertion order; the index is the id
    held_book,   \* session -> book rows it holds FOR UPDATE
    held_rec,    \* session -> borrow_record rows it holds FOR UPDATE
    pc,          \* session -> position in the request
    op,          \* session -> the call and its arguments
    retries,     \* session -> db_retry's local retries
    bk,          \* session -> Book object in the session's identity map
    result,      \* session -> outcome of the call
    ncalls,      \* calls started so far (also the clock of datetime.now)
    faults,      \* transient storage faults injected so far
    init_avail,  \* available_copies of every book in the initial state
    init_loans,  \* number of borrow records in the initial state
    w_script,    \* RetrySpec: outcome of the i-th invocation of func
    w_pc,        \* RetrySpec: position of the wrapper
    w_retries,   \* RetrySpec: db_retry's local retries
    w_calls,     \* RetrySpec: invocations of func so far
    w_rollbacks, \* RetrySpec: session.rollback() calls so far
    w_result,    \* RetrySpec: what the wrapper gave its caller
    requests_per_minute, \* the limiter's ceiling
    clients,     \* the limiter's dict: client_id -> deque of timestamps
    clock,       \* time.time() at the latest check or request
    l_log,       \* every is_allowed call so far: client, now, answer
    http,        \* ApiSpec: the request being served
    nreq,        \* ApiSpec: requests received so far
    metrics,     \* the Metrics singleton of the process
    m_thread,    \* MetricsSpec: thread -> its call through measure_borrow_metrics
    m_hist,      \* MetricsSpec: calls ended so far, by function and outcome
    l_thread     \* ThreadedLimiterSpec: thread -> its is_allowed call

coreVars == <<book, records, held_book, held_rec, pc, op, retries, bk, result,
              ncalls, faults, init_avail, init_loans>>
retryVars == <<w_script, w_pc, w_retries, w_calls, w_rollbacks, w_result>>
edgeVars == <<requests_per_minute, clients, clock, l_log, http, nreq>>
metricVars == <<metrics, m_thread, m_hist>>
vars == <<coreVars, retryVars, edgeVars, metricVars, l_thread>>

\* --------------------------------------------------------------- helpers
NoOp == [kind |-> "none", book_id |-> NoId, member_id |-> NoId,
         borrow_id |-> NoId, now |-> 0]
NoBook == [loaded |-> FALSE, available_copies |-> 0, version_id |-> 0]

Max(S) == CHOOSE x \in S : \A y \in S : y <= x

\* BorrowRecord rows with status BORROWED of one member
ActiveOf(m) ==
    {i \in DOMAIN records :
        records[i].member_id = m /\ records[i].status = BORROWED}

\* BorrowRecord rows with status BORROWED for (book, member)
ActiveFor(b, m) ==
    {i \in DOMAIN records :
        /\ records[i].book_id = b
        /\ records[i].member_id = m
        /\ records[i].status = BORROWED}

\* BorrowRecord rows with status BORROWED referencing one book
BorrowedCount(b) ==
    Cardinality({i \in DOMAIN records :
        records[i].book_id = b /\ records[i].status = BORROWED})

\* ----------------------------------------------- conditions of the code
LimitReachedOffByOne(active_count) == active_count > MAX_ACTIVE_BORROWS
LimitReached(active_count) == active_count >= MAX_ACTIVE_BORROWS

NoInventoryOffByOne(available_copies) == available_copies < 0
NoInventory(available_copies) == available_copies < 1

DecrementNothing(available_copies) == available_copies
Decrement(available_copies) == available_copies - 1

IncrementTwice(available_copies) == available_copies + 2
Increment(available_copies) == available_copies + 1

NotBorrowedNever(rec) == FALSE
NotBorrowed(rec) == rec.status # BORROWED

RetriesExhaustedEarly(r) == r >= max_retries - 1
RetriesExhaustedLate(r) == r > max_retries
RetriesExhausted(r) == r >= max_retries

\* the classes named by db_retry's except clause
TransientErrors == {"OperationalError", "StaleDataError"}

IsTransientAny(e) == TRUE
IsTransient(e) == e \in TransientErrors

BusinessErrors ==
    {"BorrowLimitExceededError", "MemberNotFoundError",
     "ActiveBorrowExistsError", "BookNotFoundError",
     "InventoryUnavailableError", "AlreadyReturnedError",
     "BorrowRecordNotFoundError"}

\* ------------------------------------------------------------------ Init
\* member 1 already holds `pre` loans, one on each of the first `pre`
\* single-copy books; every hot book has MaxCopies copies of which any
\* number is available.
ShelfRow(loaned) ==
    [total_copies |-> 1,
     available_copies |-> IF loaned THEN 0 ELSE 1,
     version_id |-> IF loaned THEN 2 ELSE 1]

\* what one invocation of func can end with, other than a transient error:
\* a value, or one of the LibraryAppError subclasses the service raises
FinalOutcomes == {"ok"} \cup BusinessErrors

\* func fails k times with a transient error and then ends with a final
\* outcome; the wrapper never reads the script beyond that invocation
Scripts ==
    {[i \in 1..ScriptLen |->
         IF i <= k THEN t[i] ELSE IF i = k + 1 THEN e ELSE "ok"] :
        k \in 0..ScriptLen, t \in [1..ScriptLen -> TransientErrors],
        e \in FinalOutcomes}

RetryInit ==
    /\ w_script \in Scripts
    /\ w_pc = "call"
    /\ w_retries = 0
    /\ w_calls = 0
    /\ w_rollbacks = 0
    /\ w_result = [type |-> "none", exc |-> "none", value |-> 0]

RetryIdle ==
    /\ w_script = [i \in 1..ScriptLen |-> "ok"]
    /\ w_pc = "call"
    /\ w_retries = 0
    /\ w_calls = 0
    /\ w_rollbacks = 0
    /\ w_result = [type |-> "none", exc |-> "none", value |-> 0]

\* no request yet; rate_limiter as the module creates it
NoRequest == [pc |-> "idle", route |-> "none", client |-> NoId,
              checked |-> FALSE, exc |-> "none", status |-> 0]

\* no is_allowed call in progress
NoCheck == [pc |-> "idle", client_id |-> NoId, now |-> 0]

EdgeIdle ==
    /\ l_thread = [t \in Sessions |-> NoCheck]
    /\ requests_per_minute = 100
    /\ clients = <<>>
    /\ clock = 0
    /\ l_log = <<>>
    /\ http = NoRequest
    /\ nreq = 0

\* Metrics() as the module creates it, and no call in progress
NoCall == [pc |-> "idle", func |-> "none",
           inner |-> [type |-> "none", exc |-> "none", calls |-> 0],
           todo |-> <<>>, tmp |-> -1,
           result |-> [type |-> "none", exc |-> "none", calls |-> 0]]

MetricsInit ==
    /\ metrics = [borrow_success_count |-> 0, borrow_failure_count |-> 0,
                  active_borrows_gauge |-> 0]
    /\ m_thread = [t \in Sessions |-> NoCall]
    /\ m_hist = [borrow_ok |-> 0, borrow_failed |-> 0, return_ok |-> 0,
                 return_failed |-> 0]

CoreInit ==
    \E pre \in 0..MAX_ACTIVE_BORROWS :
    \E hot \in {h \in [HotBooks -> 0..MaxCopies] :
                   \A b \in HotBooks \ {1} : h[b] <= h[b - 1]} :
        /\ book = [b \in Books |->
                     IF b \in HotBooks
                     THEN [total_copies |-> MaxCopies,
                           available_copies |-> hot[b],
                           version_id |-> 1]
                     ELSE ShelfRow(b - NumHot <= pre)]
        /\ records = [i \in 1..pre |->
                        [book_id |-> NumHot + i, member_id |-> 1,
                         status |-> BORROWED, returned_at |-> 0]]
        /\ init_avail = [b \in Books |->
                           IF b \in HotBooks THEN hot[b]
                           ELSE IF b - NumHot <= pre THEN 0 ELSE 1]
        /\ init_loans = pre
        /\ held_book = [s \in Sessions |-> {}]
        /\ held_rec = [s \in Sessions |-> {}]
        /\ pc = [s \in Sessions |-> "idle"]
        /\ op = [s \in Sessions |-> NoOp]
        /\ retries = [s \in Sessions |-> 0]
        /\ bk = [s \in Sessions |-> NoBook]
        /\ result = [s \in Sessions |-> "none"]
        /\ ncalls = 0
        /\ faults = 0

Init == CoreInit /\ RetryIdle /\ EdgeIdle /\ MetricsInit

\* borrow ids a return request names: every loan of a hot book, the newest
\* of the loans that existed initially, and an id that is in no table
ReturnTargets ==
    {i \in DOMAIN records : records[i].book_id \in HotBooks \/ i = init_loans}
        \cup {NoId}

\* ------------------------------------------------------ session plumbing
\* a request is served by the first worker that is free
FirstIdle(s) == pc[s] = "idle" /\ \A t \in 1..(s - 1) : pc[t] # "idle"

\* an exception leaves the service method: nothing is rolled back, the
\* locks stay with the session until it is closed
Raise(s, e) ==
    /\ pc' = [pc EXCEPT ![s] = "raised"]
    /\ result' = [result EXCEPT ![s] = e]

EntryPc(kind) == IF kind = "borrow_book" THEN "b_list" ELSE "r_lock"

\* db_retry's except branch: session.rollback(), then raise or loop
DbRetryHandlerNoRollback(s, e) ==
    /\ UNCHANGED <<held_book, held_rec, bk>>
    /\ IF RetriesExhausted(retries[s])
       THEN /\ Raise(s, e)
            /\ UNCHANGED retries
       ELSE /\ retries' = [retries EXCEPT ![s] = @ + 1]
            /\ pc' = [pc EXCEPT ![s] = EntryPc(op[s].kind)]
            /\ UNCHANGED result

DbRetryHandler(s, e) ==
    /\ held_book' = [held_book EXCEPT ![s] = {}]
    /\ held_rec' = [held_rec EXCEPT ![s] = {}]
    /\ bk' = [bk EXCEPT ![s] = NoBook]
    /\ IF RetriesExhausted(retries[s])
       THEN /\ Raise(s, e)
            /\ UNCHANGED retries
       ELSE /\ retries' = [retries EXCEPT ![s] = @ + 1]
            /\ pc' = [pc EXCEPT ![s] = EntryPc(op[s].kind)]
            /\ UNCHANGED result

BookFreeAlways(s, b) == TRUE
BookFree(s, b) == \A t \in Sessions \ {s} : b \notin held_book[t]
RecFreeAlways(s, i) == TRUE
RecFree(s, i) == \A t \in Sessions \ {s} : i \notin held_rec[t]

\* BookRepository.get_with_lock: the row the SELECT ... FOR UPDATE gives the
\* caller.  An object already in the identity map keeps its attributes.
get_with_lock(s, b) ==
    IF bk[s].loaded THEN bk[s]
    ELSE [loaded |-> TRUE,
          available_copies |-> book[b].available_copies,
          version_id |-> book[b].version_id]

\* ---------------------------------------------------------- borrow_book
\* borrow_repo.list(member_id, status=BORROWED, limit=1), the limit test and
\* member_repo.get(member_id); o is the call.  The newest active record of
\* the member is loaded together with its book (joinedload).
BorrowListBody(s, o) ==
    LET active == ActiveOf(o.member_id)
        first == IF active = {} THEN NoId ELSE Max(active)
    IN /\ bk' = [bk EXCEPT ![s] =
                   IF first # NoId /\ records[first].book_id = o.book_id
                   THEN [loaded |-> TRUE,
                         available_copies |-> book[o.book_id].available_copies,
                         version_id |-> book[o.book_id].version_id]
                   ELSE NoBook]
       /\ IF LimitReached(Cardinality(active))
          THEN Raise(s, "BorrowLimitExceededError")
          ELSE IF o.member_id \notin Members
          THEN Raise(s, "MemberNotFoundError")
          ELSE /\ pc' = [pc EXCEPT ![s] = "b_active"]
               /\ result' = [result EXCEPT ![s] = "none"]

\* a request arrives and runs borrow_book up to the member lookup
StartBorrow(s) ==
    /\ FirstIdle(s)
    /\ ncalls < MaxCalls
    /\ \E b \in HotBooks \cup {NoId}, m \in Members \cup {NoId} :
         LET o == [kind |-> "borrow_book", book_id |-> b, member_id |-> m,
                   borrow_id |-> NoId, now |-> 0]
         IN /\ op' = [op EXCEPT ![s] = o]
            /\ BorrowListBody(s, o)
    /\ retries' = [retries EXCEPT ![s] = 0]
    /\ ncalls' = ncalls + 1
    /\ UNCHANGED <<book, records, held_book, held_rec, faults,
                   init_avail, init_loans, retryVars, edgeVars,
                   metricVars, l_thread>>

\* the same statements when db_retry runs borrow_book again
BorrowList(s) ==
    /\ pc[s] = "b_list"
    /\ BorrowListBody(s, op[s])
    /\ UNCHANGED <<book, records, held_book, held_rec, op, retries, ncalls,
                   faults, init_avail, init_loans, retryVars, edgeVars,
                   metricVars, l_thread>>

\* borrow_repo.get_active_borrow(book_id, member_id): scalar_one_or_none
BorrowGetActive(s) ==
    /\ pc[s] = "b_active"
    /\ LET n == Cardinality(ActiveFor(op[s].book_id, op[s].member_id))
       IN IF n > 1 THEN Raise(s, "MultipleResultsFound")
          ELSE IF n = 1 THEN Raise(s, "ActiveBorrowExistsError")
          ELSE /\ pc' = [pc EXCEPT ![s] = "b_lock"]
               /\ UNCHANGED result
    /\ UNCHANGED <<book, records, held_book, held_rec, op, retries, bk,
                   ncalls, faults, init_avail, init_loans, retryVars, edgeVars,
                   metricVars, l_thread>>

\* book_repo.get_with_lock(book_id), the stock test and the decrement
BorrowLockBook(s) ==
    /\ pc[s] = "b_lock"
    /\ LET b == op[s].book_id IN
       IF b \notin Books
       THEN /\ Raise(s, "BookNotFoundError")
            /\ UNCHANGED <<held_book, bk>>
       ELSE /\ BookFree(s, b)
            /\ held_book' = [held_book EXCEPT ![s] = @ \cup {b}]
            /\ LET o == get_with_lock(s, b) IN
               IF NoInventory(o.available_copies)
               THEN /\ Raise(s, "InventoryUnavailableError")
                    /\ bk' = [bk EXCEPT ![s] = o]
               ELSE /\ bk' = [bk EXCEPT ![s] =
                                [o EXCEPT !.available_copies = Decrement(@)]]
                    /\ pc' = [pc EXCEPT ![s] = "b_flush"]
                    /\ UNCHANGED result
    /\ UNCHANGED <<book, records, held_rec, op, retries, ncalls, faults,
                   init_avail, init_loans, retryVars, edgeVars,
                   metricVars, l_thread>>

\* session.flush(): UPDATE book ... WHERE version_id = :loaded, INSERT record
Flush(s, b, next) ==
    IF book[b].version_id # bk[s].version_id
    THEN /\ DbRetryHandler(s, "StaleDataError")
    ELSE IF bk[s].available_copies < 0
    THEN /\ Raise(s, "IntegrityError")
         /\ UNCHANGED <<held_book, held_rec, bk, retries>>
    ELSE /\ pc' = [pc EXCEPT ![s] = next]
         /\ UNCHANGED <<held_book, held_rec, bk, retries, result>>

BorrowFlush(s) ==
    /\ pc[s] = "b_flush"
    /\ Flush(s, op[s].book_id, "b_commit")
    /\ UNCHANGED <<book, records, op, ncalls, faults, init_avail, init_loans,
                   retryVars, edgeVars,
                   metricVars, l_thread>>

\* session.commit(): both writes become visible, the locks are released and
\* the objects expire; the call returns and the request ends (closing the
\* session after the commit changes nothing)
CommitBookLost(s, b) == book
CommitBook(s, b) ==
    [book EXCEPT ![b] = [@ EXCEPT !.available_copies = bk[s].available_copies,
                                  !.version_id = bk[s].version_id + 1]]

BorrowCommit(s) ==
    /\ pc[s] = "b_commit"
    /\ book' = CommitBook(s, op[s].book_id)
    /\ records' = Append(records,
                     [book_id |-> op[s].book_id, member_id |-> op[s].member_id,
                      status |-> BORROWED, returned_at |-> 0])
    /\ held_book' = [held_book EXCEPT ![s] = {}]
    /\ held_rec' = [held_rec EXCEPT ![s] = {}]
    /\ bk' = [bk EXCEPT ![s] = NoBook]
    /\ pc' = [pc EXCEPT ![s] = "idle"]
    /\ result' = [result EXCEPT ![s] = "ok"]
    /\ UNCHANGED <<op, retries, ncalls, faults, init_avail, init_loans,
                   retryVars, edgeVars,
                   metricVars, l_thread>>

\* ---------------------------------------------------------- return_book
\* borrow_repo.get_by_id_with_lock(borrow_id), the status test and the
\* assignment of status and returned_at on the loaded object; o is the call
\* and t the value of datetime.now
ReturnLockBodyNoRecordLock(s, o, t) ==
    LET i == o.borrow_id IN
    IF i \notin DOMAIN records
    THEN /\ Raise(s, "BorrowRecordNotFoundError")
         /\ op' = [op EXCEPT ![s] = o]
         /\ UNCHANGED held_rec
    ELSE /\ UNCHANGED held_rec
         /\ IF NotBorrowed(records[i])
            THEN /\ Raise(s, "AlreadyReturnedError")
                 /\ op' = [op EXCEPT ![s] = o]
            ELSE /\ pc' = [pc EXCEPT ![s] = "r_book"]
                 /\ op' = [op EXCEPT ![s] = [o EXCEPT !.now = t]]
                 /\ result' = [result EXCEPT ![s] = "none"]

ReturnLockBody(s, o, t) ==
    LET i == o.borrow_id IN
    IF i \notin DOMAIN records
    THEN /\ Raise(s, "BorrowRecordNotFoundError")
         /\ op' = [op EXCEPT ![s] = o]
         /\ UNCHANGED held_rec
    ELSE /\ RecFree(s, i)
         /\ held_rec' = [held_rec EXCEPT ![s] = @ \cup {i}]
         /\ IF NotBorrowed(records[i])
            THEN /\ Raise(s, "AlreadyReturnedError")
                 /\ op' = [op EXCEPT ![s] = o]
            ELSE /\ pc' = [pc EXCEPT ![s] = "r_book"]
                 /\ op' = [op EXCEPT ![s] = [o EXCEPT !.now = t]]
                 /\ result' = [result EXCEPT ![s] = "none"]

\* a request arrives and runs return_book up to the status test; a request
\* for a locked record waits in the SELECT ... FOR UPDATE
StartReturn(s) ==
    /\ FirstIdle(s)
    /\ ncalls < MaxCalls
    /\ ncalls' = ncalls + 1
    /\ \E i \in ReturnTargets :
         ReturnLockBody(s, [kind |-> "return_book", book_id |-> NoId,
                            member_id |-> NoId, borrow_id |-> i, now |-> 0],
                        ncalls + 1)
    /\ retries' = [retries EXCEPT ![s] = 0]
    /\ UNCHANGED <<book, records, held_book, bk, faults,
                   init_avail, init_loans, retryVars, edgeVars,
                   metricVars, l_thread>>

\* a request arrives for a record another session holds: the call waits in
\* its SELECT ... FOR UPDATE
StartReturnWait(s) ==
    /\ FirstIdle(s)
    /\ ncalls < MaxCalls
    /\ ncalls' = ncalls + 1
    /\ \E i \in ReturnTargets \cap DOMAIN records :
         /\ ~RecFree(s, i)
         /\ op' = [op EXCEPT ![s] =
                     [kind |-> "return_book", book_id |-> NoId,
                      member_id |-> NoId, borrow_id |-> i, now |-> 0]]
    /\ pc' = [pc EXCEPT ![s] = "r_lock"]
    /\ result' = [result EXCEPT ![s] = "none"]
    /\ retries' = [retries EXCEPT ![s] = 0]
    /\ UNCHANGED <<book, records, held_book, held_rec, bk, faults,
                   init_avail, init_loans, retryVars, edgeVars,
                   metricVars, l_thread>>

\* the same statements when the wait ends or db_retry runs return_book again
ReturnLockRecord(s) ==
    /\ pc[s] = "r_lock"
    /\ ReturnLockBody(s, op[s], ncalls)
    /\ UNCHANGED <<book, records, held_book, retries, bk, ncalls, faults,
                   init_avail, init_loans, retryVars, edgeVars,
                   metricVars, l_thread>>

\* book_repo.get_with_lock(borrow_record.book_id) and the increment
ReturnLockBook(s) ==
    /\ pc[s] = "r_book"
    /\ LET b == records[op[s].borrow_id].book_id IN
       IF b \notin Books
       THEN /\ Raise(s, "BookNotFoundError")
            /\ UNCHANGED <<held_book, bk>>
       ELSE /\ BookFree(s, b)
            /\ held_book' = [held_book EXCEPT ![s] = @ \cup {b}]
            /\ bk' = [bk EXCEPT ![s] =
                        [get_with_lock(s, b) EXCEPT
                            !.available_copies = Increment(@)]]
            /\ pc' = [pc EXCEPT ![s] = "r_flush"]
            /\ UNCHANGED result
    /\ UNCHANGED <<book, records, held_rec, op, retries, ncalls, faults,
                   init_avail, init_loans, retryVars, edgeVars,
                   metricVars, l_thread>>

ReturnFlush(s) ==
    /\ pc[s] = "r_flush"
    /\ Flush(s, records[op[s].borrow_id].book_id, "r_commit")
    /\ UNCHANGED <<book, records, op, ncalls, faults, init_avail, init_loans,
                   retryVars, edgeVars,
                   metricVars, l_thread>>

ReturnCommit(s) ==
    /\ pc[s] = "r_commit"
    /\ book' = CommitBook(s, records[op[s].borrow_id].book_id)
    /\ records' = [records EXCEPT ![op[s].borrow_id] =
                     [@ EXCEPT !.status = RETURNED,
                               !.returned_at = op[s].now]]
    /\ held_book' = [held_book EXCEPT ![s] = {}]
    /\ held_rec' = [held_rec EXCEPT ![s] = {}]
    /\ bk' = [bk EXCEPT ![s] = NoBook]
    /\ pc' = [pc EXCEPT ![s] = "idle"]
    /\ result' = [result EXCEPT ![s] = "ok"]
    /\ UNCHANGED <<op, retries, ncalls, faults, init_avail, init_loans,
                   retryVars, edgeVars,
                   metricVars, l_thread>>

\* ------------------------------------------------- storage faults, close
DbPcs == {"b_list", "b_active", "b_lock", "b_flush", "b_commit",
          "r_lock", "r_book", "r_flush", "r_commit"}

\* a statement of the call raises OperationalError (deadlock victim, lost
\* connection, lock timeout); db_retry catches it
TransientFault(s) ==
    /\ pc[s] \in DbPcs
    /\ faults < MaxFaults
    /\ faults' = faults + 1
    /\ DbRetryHandler(s, "OperationalError")
    /\ UNCHANGED <<book, records, op, ncalls, init_avail, init_loans,
                   retryVars, edgeVars,
                   metricVars, l_thread>>

\* the first statement of an arriving call raises OperationalError: nothing
\* is held yet, db_retry rolls back, counts the retry and runs the call again
FaultOnArrival(s) ==
    /\ FirstIdle(s)
    /\ ncalls < MaxCalls
    /\ faults < MaxFaults
    /\ faults' = faults + 1
    /\ ncalls' = ncalls + 1
    /\ \E o \in
          {[kind |-> "borrow_book", book_id |-> b, member_id |-> m,
            borrow_id |-> NoId, now |-> 0] :
               b \in HotBooks \cup {NoId}, m \in Members \cup {NoId}}
          \cup
          {[kind |-> "return_book", book_id |-> NoId, member_id |-> NoId,
            borrow_id |-> i, now |-> 0] : i \in ReturnTargets} :
         /\ op' = [op EXCEPT ![s] = o]
         /\ IF RetriesExhausted(0)
            THEN /\ Raise(s, "OperationalError")
                 /\ retries' = [retries EXCEPT ![s] = 0]
            ELSE /\ retries' = [retries EXCEPT ![s] = 1]
                 /\ pc' = [pc EXCEPT ![s] = EntryPc(o.kind)]
                 /\ result' = [result EXCEPT ![s] = "none"]
    /\ UNCHANGED <<book, records, held_book, held_rec, bk, init_avail,
                   init_loans, retryVars, edgeVars,
                   metricVars, l_thread>>

\* get_db's finally: db.close() ends the transaction and releases the locks
CloseKeepsLocks(s) ==
    /\ pc[s] = "raised"
    /\ bk' = [bk EXCEPT ![s] = NoBook]
    /\ pc' = [pc EXCEPT ![s] = "idle"]
    /\ UNCHANGED <<book, records, held_book, held_rec, op, retries, result,
                   ncalls, faults, init_avail, init_loans, retryVars, edgeVars,
                   metricVars, l_thread>>

Close(s) ==
    /\ pc[s] = "raised"
    /\ held_book' = [held_book EXCEPT ![s] = {}]
    /\ held_rec' = [held_rec EXCEPT ![s] = {}]
    /\ bk' = [bk EXCEPT ![s] = NoBook]
    /\ pc' = [pc EXCEPT ![s] = "idle"]
    /\ UNCHANGED <<book, records, op, retries, result, ncalls, faults,
                   init_avail, init_loans, retryVars, edgeVars,
                   metricVars, l_thread>>

Next ==
    \E s \in Sessions :
        \/ StartBorrow(s)
        \/ BorrowList(s)
        \/ BorrowGetActive(s)
        \/ BorrowLockBook(s)
        \/ BorrowFlush(s)
        \/ BorrowCommit(s)
        \/ StartReturn(s)
        \/ StartReturnWait(s)
        \/ ReturnLockRecord(s)
        \/ ReturnLockBook(s)
        \/ ReturnFlush(s)
        \/ ReturnCommit(s)
        \/ TransientFault(s)
        \/ FaultOnArrival(s)
        \/ Close(s)

Spec == Init /\ [][Next]_vars

\* what session s does once its request has arrived: the statements of the
\* call as the worker thread reaches them, and get_db's close
Progress(s) ==
    \/ BorrowList(s)
    \/ BorrowGetActive(s)
    \/ BorrowLockBook(s)
    \/ BorrowFlush(s)
    \/ BorrowCommit(s)
    \/ ReturnLockRecord(s)
    \/ ReturnLockBook(s)
    \/ ReturnFlush(s)
    \/ ReturnCommit(s)
    \/ Close(s)

\* a worker thread runs every statement it reaches, and a SELECT ... FOR
\* UPDATE that can take its lock for good takes it
\* The initial states in which no member has a loan yet.
FairStart == Init /\ init_loans = 0

FairSpec ==
    FairStart /\ [][Next]_vars /\ \A s \in Sessions : WF_vars(Progress(s))

\* ---------------------------------------------------------------- db_retry
\* The wrapper of db_retry around func.  The i-th invocation of func ends as
\* w_script[i] says: it returns ("ok", with i as its value) or raises the
\* named exception.
CoreIdle ==
    /\ book = [b \in Books |->
                 IF b \in HotBooks
                 THEN [total_copies |-> MaxCopies,
                       available_copies |-> MaxCopies, version_id |-> 1]
                 ELSE ShelfRow(FALSE)]
    /\ records = <<>>
    /\ init_avail = [b \in Books |-> IF b \in HotBooks THEN MaxCopies ELSE 1]
    /\ init_loans = 0
    /\ held_book = [s \in Sessions |-> {}]
    /\ held_rec = [s \in Sessions |-> {}]
    /\ pc = [s \in Sessions |-> "idle"]
    /\ op = [s \in Sessions |-> NoOp]
    /\ retries = [s \in Sessions |-> 0]
    /\ bk = [s \in Sessions |-> NoBook]
    /\ result = [s \in Sessions |-> "none"]
    /\ ncalls = 0
    /\ faults = 0

\* return func(*args, **kwargs), or the exception it raises
WrapperCall ==
    /\ w_pc = "call"
    /\ w_calls < ScriptLen
    /\ w_calls' = w_calls + 1
    /\ LET e == w_script[w_calls + 1] IN
       IF e = "ok"
       THEN /\ w_result' = [type |-> "return", exc |-> "none",
                            value |-> w_calls + 1]
            /\ w_pc' = "done"
       ELSE IF IsTransient(e)
       THEN /\ w_pc' = "except"
            /\ UNCHANGED w_result
       ELSE /\ w_result' = [type |-> "raise", exc |-> e, value |-> w_calls + 1]
            /\ w_pc' = "done"
    /\ UNCHANGED <<w_script, w_retries, w_rollbacks, coreVars, edgeVars,
                   metricVars, l_thread>>

\* except (OperationalError, StaleDataError) as e: rollback, raise e or count
WrapperExcept ==
    /\ w_pc = "except"
    /\ w_rollbacks' = w_rollbacks + 1
    /\ IF RetriesExhausted(w_retries)
       THEN /\ w_result' = [type |-> "raise", exc |-> w_script[w_calls],
                            value |-> w_calls]
            /\ w_pc' = "done"
            /\ UNCHANGED w_retries
       ELSE /\ w_retries' = w_retries + 1
            /\ w_pc' = "sleep"
            /\ UNCHANGED w_result
    /\ UNCHANGED <<w_script, w_calls, coreVars, edgeVars,
                   metricVars, l_thread>>

\* time.sleep(sleep_time), then the next round of the while loop
WrapperSleep ==
    /\ w_pc = "sleep"
    /\ w_pc' = "call"
    /\ UNCHANGED <<w_script, w_retries, w_calls, w_rollbacks, w_result,
                   coreVars, edgeVars,
                   metricVars, l_thread>>

RetryNext == WrapperCall \/ WrapperExcept \/ WrapperSleep

RetryStart == RetryInit /\ CoreIdle /\ EdgeIdle /\ MetricsInit

RetrySpec == RetryStart /\ [][RetryNext]_vars

\* the wrapper is sequential code on one thread: every statement it reaches
\* is executed, and time.sleep returns
RetryFairSpec == RetrySpec /\ WF_vars(RetryNext)

\* ------------------------------------------------ SlidingWindowRateLimiter
\* while window and window[0] <= now - 60: the test on the oldest timestamp
ExpiredNever(timestamp, now) == FALSE
ExpiredStrict(timestamp, now) == timestamp < now - WINDOW
Expired(timestamp, now) == timestamp <= now - WINDOW

\* if len(window) < self.requests_per_minute
HasRoomOffByOne(length, ceiling) == length <= ceiling
HasRoom(length, ceiling) == length < ceiling

\* the eviction loop: popleft while the oldest timestamp has expired
RECURSIVE Evict(_, _)
Evict(window, now) ==
    IF window # <<>> /\ Expired(Head(window), now)
    THEN Evict(Tail(window), now)
    ELSE window

\* the deque of a client, created empty at its first check
WindowOf(dict, client_id) ==
    IF client_id \in DOMAIN dict THEN dict[client_id] ELSE <<>>

\* is_allowed(client_id) at time now: the answer and the dict it leaves
is_allowed(dict, client_id, now) ==
    LET window == Evict(WindowOf(dict, client_id), now)
        allowed == HasRoom(Len(window), requests_per_minute)
        after == IF allowed THEN Append(window, now) ELSE window
    IN [allowed |-> allowed,
        clients |-> [c \in DOMAIN dict \cup {client_id} |->
                        IF c = client_id THEN after ELSE dict[c]]]

\* a limiter with any ceiling up to MaxCapacity, before its first check
LimiterInit ==
    /\ l_thread = [t \in Sessions |-> NoCheck]
    /\ requests_per_minute \in 1..MaxCapacity
    /\ clients = <<>>
    /\ clock = 0
    /\ l_log = <<>>
    /\ http = NoRequest
    /\ nreq = 0

\* how far time.time() moves between two checks: not at all, a second, and
\* the three values around the length of the window
Advances == {0, 1, WINDOW - 1, WINDOW, WINDOW + 1}

\* one call of is_allowed, d seconds after the previous one
Check(client_id, d) ==
    /\ Len(l_log) < MaxChecks
    /\ LET r == is_allowed(clients, client_id, clock + d) IN
       /\ clients' = r.clients
       /\ l_log' = Append(l_log, [client |-> client_id, now |-> clock + d,
                                  allowed |-> r.allowed])
    /\ clock' = clock + d
    /\ UNCHANGED <<requests_per_minute, http, nreq, coreVars, retryVars,
                   metricVars, l_thread>>

LimiterNext == \E c \in ClientIds, d \in Advances : Check(c, d)

LimiterStart == LimiterInit /\ CoreIdle /\ RetryIdle /\ MetricsInit

LimiterSpec == LimiterStart /\ [][LimiterNext]_vars

\* ------------------------------------------------------------ HTTP boundary
\* the two loan routes and one of the routes of the books router
BorrowRoutes == {"create_borrow", "return_borrow"}
Routes == BorrowRoutes \cup {"create_book"}

\* the routes declared with dependencies=[Depends(rate_limit_dependency)]
RateLimited == {"create_book"}

\* what the service call of an endpoint ends with: its value, one of its
\* business errors, the transient error db_retry gave up on, or the
\* MultipleResultsFound of get_active_borrow
Outcomes(route) ==
    IF route = "create_borrow"
    THEN {"ok", "BorrowLimitExceededError", "MemberNotFoundError",
          "ActiveBorrowExistsError", "BookNotFoundError",
          "InventoryUnavailableError", "MultipleResultsFound"}
         \cup TransientErrors
    ELSE IF route = "return_borrow"
    THEN {"ok", "BorrowRecordNotFoundError", "AlreadyReturnedError",
          "BookNotFoundError"} \cup TransientErrors
    ELSE {"ok"}

\* status_code of the route decorator
SuccessStatus(route) == IF route = "return_borrow" THEN 200 ELSE 201

\* the two isinstance tuples of library_exception_handler
NotFoundErrors ==
    {"MemberNotFoundError", "BookNotFoundError", "BorrowRecordNotFoundError"}

ConflictErrorsShort ==
    {"InventoryUnavailableError", "BorrowLimitExceededError",
     "AlreadyReturnedError"}
ConflictErrors ==
    {"InventoryUnavailableError", "BorrowLimitExceededError",
     "AlreadyReturnedError", "ActiveBorrowExistsError"}

library_exception_handler(exc) ==
    IF exc \in NotFoundErrors THEN 404
    ELSE IF exc \in ConflictErrors THEN 409
    ELSE 400

\* the response to an exception that leaves the endpoint: the handler
\* registered for LibraryAppError, or the server's answer to an exception
\* that no handler is registered for
ExceptionStatus(exc) ==
    IF exc \in BusinessErrors \cup {"LibraryAppError"}
    THEN library_exception_handler(exc)
    ELSE 500

\* the limiter of the application, before the first request
ApiInit ==
    /\ l_thread = [t \in Sessions |-> NoCheck]
    /\ requests_per_minute \in 1..MaxCapacity
    /\ clients = <<>>
    /\ clock = 0
    /\ l_log = <<>>
    /\ http = NoRequest
    /\ nreq = 0

\* a request arrives d seconds after the previous one and its dependencies
\* are resolved: rate_limit_dependency where the route declares it
Receive(route, client, d) ==
    /\ http.pc \in {"idle", "responded"}
    /\ nreq < MaxRequests
    /\ nreq' = nreq + 1
    /\ clock' = clock + d
    /\ IF route \in RateLimited
       THEN LET r == is_allowed(clients, client, clock + d) IN
            /\ clients' = r.clients
            /\ l_log' = Append(l_log, [client |-> client, now |-> clock + d,
                                       allowed |-> r.allowed])
            /\ http' = IF r.allowed
                       THEN [pc |-> "endpoint", route |-> route,
                             client |-> client, checked |-> TRUE,
                             exc |-> "none", status |-> 0]
                       ELSE [pc |-> "responded", route |-> route,
                             client |-> client, checked |-> TRUE,
                             exc |-> "HTTPException", status |-> 429]
       ELSE /\ http' = [pc |-> "endpoint", route |-> route,
                        client |-> client, checked |-> FALSE,
                        exc |-> "none", status |-> 0]
            /\ UNCHANGED <<clients, l_log>>
    /\ UNCHANGED <<requests_per_minute, coreVars, retryVars,
                   metricVars, l_thread>>

\* the endpoint calls the service and the response is made from its outcome
Endpoint(e) ==
    /\ http.pc = "endpoint"
    /\ e \in Outcomes(http.route)
    /\ http' = [http EXCEPT
                  !.pc = "responded",
                  !.exc = e,
                  !.status = IF e = "ok" THEN SuccessStatus(http.route)
                             ELSE ExceptionStatus(e)]
    /\ UNCHANGED <<requests_per_minute, clients, clock, l_log, nreq,
                   coreVars, retryVars,
                   metricVars, l_thread>>

ApiNext ==
    \/ \E route \in Routes, c \in ClientIds, d \in {0, WINDOW + 1} :
          Receive(route, c, d)
    \/ \E e \in BusinessErrors \cup TransientErrors
                  \cup {"ok", "MultipleResultsFound"} : Endpoint(e)

ApiStart == ApiInit /\ CoreIdle /\ RetryIdle /\ MetricsInit

ApiSpec == ApiStart /\ [][ApiNext]_vars

\* ------------------------------------------- is_allowed, statement-wise
\* The statements of is_allowed run by several threads on the one
\* rate_limiter: each thread is between two statements of its call.
InCheck == Cardinality({t \in Sessions : l_thread[t].pc \notin {"idle", "done"}})

\* how far time.time() moves between two calls: not at all, or by the length
\* of the window
ThreadAdvances == {0, WINDOW}

\* now = time.time(); the deque is created at the client's first check
Begin(t, client_id, d) ==
    /\ l_thread[t].pc \in {"idle", "done"}
    /\ Len(l_log) + InCheck < MaxChecks
    /\ clock' = clock + d
    /\ l_thread' = [l_thread EXCEPT ![t] =
                      [pc |-> "evict", client_id |-> client_id,
                       now |-> clock + d]]
    /\ clients' = [c \in DOMAIN clients \cup {client_id} |->
                     WindowOf(clients, c)]
    /\ UNCHANGED <<requests_per_minute, l_log, http, nreq, coreVars,
                   retryVars, metricVars>>

\* while window and window[0] <= now - 60
EvictTest(t) ==
    /\ l_thread[t].pc = "evict"
    /\ LET window == clients[l_thread[t].client_id] IN
       l_thread' = [l_thread EXCEPT ![t].pc =
                      IF window # <<>> /\ Expired(Head(window), l_thread[t].now)
                      THEN "popleft" ELSE "len"]
    /\ UNCHANGED <<requests_per_minute, clients, clock, l_log, http, nreq,
                   coreVars, retryVars, metricVars>>

\* window.popleft(): IndexError on an empty deque
Popleft(t) ==
    /\ l_thread[t].pc = "popleft"
    /\ LET c == l_thread[t].client_id IN
       IF clients[c] = <<>>
       THEN /\ l_thread' = [l_thread EXCEPT ![t].pc = "IndexError"]
            /\ UNCHANGED clients
       ELSE /\ clients' = [clients EXCEPT ![c] = Tail(@)]
            /\ l_thread' = [l_thread EXCEPT ![t].pc = "evict"]
    /\ UNCHANGED <<requests_per_minute, clock, l_log, http, nreq, coreVars,
                   retryVars, metricVars>>

\* if len(window) < self.requests_per_minute, else return False
LenTest(t) ==
    /\ l_thread[t].pc = "len"
    /\ IF HasRoom(Len(clients[l_thread[t].client_id]), requests_per_minute)
       THEN /\ l_thread' = [l_thread EXCEPT ![t].pc = "append"]
            /\ UNCHANGED l_log
       ELSE /\ l_thread' = [l_thread EXCEPT ![t].pc = "done"]
            /\ l_log' = Append(l_log, [client |-> l_thread[t].client_id,
                                       now |-> l_thread[t].now,
                                       allowed |-> FALSE])
    /\ UNCHANGED <<requests_per_minute, clients, clock, http, nreq, coreVars,
                   retryVars, metricVars>>

\* window.append(now); return True
AppendNow(t) ==
    /\ l_thread[t].pc = "append"
    /\ clients' = [clients EXCEPT ![l_thread[t].client_id] =
                     Append(@, l_thread[t].now)]
    /\ l_thread' = [l_thread EXCEPT ![t].pc = "done"]
    /\ l_log' = Append(l_log, [client |-> l_thread[t].client_id,
                               now |-> l_thread[t].now, allowed |-> TRUE])
    /\ UNCHANGED <<requests_per_minute, clock, http, nreq, coreVars,
                   retryVars, metricVars>>

ThreadedLimiterNext ==
    \E t \in Sessions :
        \/ \E c \in ClientIds, d \in ThreadAdvances : Begin(t, c, d)
        \/ EvictTest(t)
        \/ Popleft(t)
        \/ LenTest(t)
        \/ AppendNow(t)

ThreadedLimiterSpec == LimiterStart /\ [][ThreadedLimiterNext]_vars

\* ------------------------------------------------ measure_borrow_metrics
\* The threads of the worker pool each run one service call at a time through
\* measure_borrow_metrics(db_retry(func)); they share the Metrics singleton.
Funcs == {"borrow_book", "return_book"}

RouteOf(func) == IF func = "borrow_book" THEN "create_borrow" ELSE "return_borrow"

\* what db_retry's wrapper gives its caller: a value or a non-transient error
\* after any number of invocations of func, or a transient error after the
\* last permitted one
InnerResults(func) ==
    {[type |-> IF e = "ok" THEN "return" ELSE "raise",
      exc |-> IF e = "ok" THEN "none" ELSE e, calls |-> n] :
        e \in Outcomes(RouteOf(func)) \ TransientErrors,
        n \in 1..(max_retries + 1)}
    \cup
    {[type |-> "raise", exc |-> e, calls |-> max_retries + 1] :
        e \in TransientErrors}

\* the methods of Metrics as the attribute updates they make, in order
inc_borrow_success ==
    <<[field |-> "borrow_success_count", f |-> "inc"],
      [field |-> "active_borrows_gauge", f |-> "inc"]>>

inc_borrow_failure == <<[field |-> "borrow_failure_count", f |-> "inc"]>>

dec_active_borrow == <<[field |-> "active_borrows_gauge", f |-> "dec"]>>

\* the value an update stores, from the value it loaded
Apply(f, v) == IF f = "inc" THEN v + 1 ELSE Max({0, v - 1})

\* the Metrics method the wrapper calls once func has ended
measure_borrow_metrics(func, inner) ==
    IF inner.type = "return"
    THEN IF func = "borrow_book" THEN inc_borrow_success
         ELSE IF func = "return_book" THEN dec_active_borrow
         ELSE <<>>
    ELSE IF func = "borrow_book" THEN inc_borrow_failure
         ELSE <<>>

InFlight == Cardinality({t \in Sessions : m_thread[t].pc = "measure"})

Ended == m_hist.borrow_ok + m_hist.borrow_failed + m_hist.return_ok
             + m_hist.return_failed

\* result = func(*args, **kwargs), or the exception it raises
MeasuredCall(t) ==
    /\ m_thread[t].pc \in {"idle", "done"}
    /\ Ended + InFlight < MaxMeasured
    /\ \E func \in Funcs : \E inner \in InnerResults(func) :
         m_thread' = [m_thread EXCEPT ![t] =
                        [pc |-> "measure", func |-> func, inner |-> inner,
                         todo |-> measure_borrow_metrics(func, inner),
                         tmp |-> -1,
                         result |-> NoCall.result]]
    /\ UNCHANGED <<metrics, m_hist, coreVars, retryVars, edgeVars,
                   l_thread>>

\* self.<field> += 1, or max(0, self.<field> - 1): the attribute is loaded
Load(t) ==
    /\ m_thread[t].pc = "measure"
    /\ m_thread[t].todo # <<>>
    /\ m_thread[t].tmp = -1
    /\ m_thread' = [m_thread EXCEPT ![t].tmp =
                      metrics[Head(m_thread[t].todo).field]]
    /\ UNCHANGED <<metrics, m_hist, coreVars, retryVars, edgeVars,
                   l_thread>>

\* and the new value is stored
Store(t) ==
    /\ m_thread[t].pc = "measure"
    /\ m_thread[t].tmp # -1
    /\ LET u == Head(m_thread[t].todo) IN
       metrics' = [metrics EXCEPT ![u.field] = Apply(u.f, m_thread[t].tmp)]
    /\ m_thread' = [m_thread EXCEPT ![t].todo = Tail(@), ![t].tmp = -1]
    /\ UNCHANGED <<m_hist, coreVars, retryVars, edgeVars,
                   l_thread>>

\* return result, or raise e
Finish(t) ==
    /\ m_thread[t].pc = "measure"
    /\ m_thread[t].todo = <<>>
    /\ m_thread' = [m_thread EXCEPT ![t].pc = "done",
                                    ![t].result = m_thread[t].inner]
    /\ LET ok == m_thread[t].inner.type = "return" IN
       m_hist' =
         IF m_thread[t].func = "borrow_book"
         THEN IF ok THEN [m_hist EXCEPT !.borrow_ok = @ + 1]
              ELSE [m_hist EXCEPT !.borrow_failed = @ + 1]
         ELSE IF ok THEN [m_hist EXCEPT !.return_ok = @ + 1]
              ELSE [m_hist EXCEPT !.return_failed = @ + 1]
    /\ UNCHANGED <<metrics, coreVars, retryVars, edgeVars,
                   l_thread>>

MetricsNext ==
    \E t \in Sessions : MeasuredCall(t) \/ Load(t) \/ Store(t) \/ Finish(t)

MetricsStart == MetricsInit /\ CoreIdle /\ RetryIdle /\ EdgeIdle

MetricsSpec == MetricsStart /\ [][MetricsNext]_vars

\* -------------------------------------------------- BookRepository.update
\* PUT /books/{book_id} beside the borrow and return calls.  obj_in always
\* sets the title; it sets available_copies or leaves it unset.
Unset == -1

BookUpdates == {Unset} \cup 0..MaxCopies

\* db_obj = session.get(Book, id), the early return, and setattr for every
\* field obj_in sets; no row lock is taken
StartUpdate(s) ==
    /\ FirstIdle(s)
    /\ ncalls < MaxCalls
    /\ ncalls' = ncalls + 1
    /\ \E b \in HotBooks \cup {NoId}, n \in BookUpdates :
         /\ op' = [op EXCEPT ![s] =
                     [kind |-> "update", book_id |-> b, member_id |-> NoId,
                      borrow_id |-> NoId, now |-> 0]]
         /\ IF b \notin Books
            THEN /\ result' = [result EXCEPT ![s] = "None"]
                 /\ UNCHANGED <<pc, bk>>
            ELSE /\ bk' = [bk EXCEPT ![s] =
                             [loaded |-> TRUE,
                              available_copies |->
                                  IF n = Unset THEN book[b].available_copies
                                  ELSE n,
                              version_id |-> book[b].version_id]]
                 /\ pc' = [pc EXCEPT ![s] = "u_commit"]
                 /\ result' = [result EXCEPT ![s] = "none"]
    /\ retries' = [retries EXCEPT ![s] = 0]
    /\ UNCHANGED <<book, records, held_book, held_rec, faults, init_avail,
                   init_loans, retryVars, edgeVars, metricVars, l_thread>>

\* session.commit(): UPDATE book SET ... WHERE id = :id AND version_id =
\* :loaded waits for the row's lock holder, and then writes or raises
UpdateCommit(s) ==
    /\ pc[s] = "u_commit"
    /\ BookFree(s, op[s].book_id)
    /\ IF book[op[s].book_id].version_id # bk[s].version_id
       THEN /\ Raise(s, "StaleDataError")
            /\ UNCHANGED <<book, bk>>
       ELSE /\ book' = CommitBook(s, op[s].book_id)
            /\ bk' = [bk EXCEPT ![s] = NoBook]
            /\ pc' = [pc EXCEPT ![s] = "idle"]
            /\ result' = [result EXCEPT ![s] = "ok"]
    /\ UNCHANGED <<records, held_book, held_rec, op, retries, ncalls, faults,
                   init_avail, init_loans, retryVars, edgeVars, metricVars, l_thread>>

CatalogNext ==
    \/ Next
    \/ \E s \in Sessions : StartUpdate(s) \/ UpdateCommit(s)

CatalogStart == CoreIdle /\ RetryIdle /\ EdgeIdle /\ MetricsInit

CatalogSpec == CatalogStart /\ [][CatalogNext]_vars

\* ------------------------------------------------------------------ claims

TwoCallsDone(s, t) ==
    /\ s # t
    /\ ncalls = 2
    /\ result[s] # "none"
    /\ result[t] # "none"

\* m exists, is below the limit and has no loan in the initial state on b
Eligible0(m, b) ==
    /\ m \in Members
    /\ b \in HotBooks
    /\ (m = 1 => init_loans < MAX_ACTIVE_BORROWS)

\* the scenario of C2: the only two calls are borrow_book calls for the same
\* book, of which one copy was available, by two different eligible members,
\* and no statement hit a storage fault
LastCopyRace(s, t) ==
    /\ TwoCallsDone(s, t)
    /\ faults = 0
    /\ op[s].kind = "borrow_book"
    /\ op[t].kind = "borrow_book"
    /\ op[s].book_id = op[t].book_id
    /\ op[s].member_id # op[t].member_id
    /\ Eligible0(op[s].member_id, op[s].book_id)
    /\ Eligible0(op[t].member_id, op[t].book_id)
    /\ init_avail[op[s].book_id] = 1

\* C2: two borrow_book calls by two different members for a book with one
\* available copy: under every interleaving exactly one succeeds, the other
\* fails with InventoryUnavailableError, and available_copies ends at 0.
C2_LastCopyRace ==
    \A s, t \in Sessions :
        LastCopyRace(s, t) =>
            /\ {result[s], result[t]} = {"ok", "InventoryUnavailableError"}
            /\ book[op[s].book_id].available_copies = 0

\* the race has been run, and the loser is still holding its request open
C2_Witness ==
    \E s, t \in Sessions :
        /\ LastCopyRace(s, t)
        /\ result[s] = "ok"
        /\ pc[t] = "raised"

\* C3: at most one record with status BORROWED exists for a (book, member)
\* pair in every reachable state.
C3_OneActivePerPair ==
    \A b \in Books, m \in Members : Cardinality(ActiveFor(b, m)) <= 1

\* C4: no member has more than MAX_ACTIVE_BORROWS records with status
\* BORROWED in any reachable state.
C4_LimitNeverExceeded ==
    \A m \in Members : Cardinality(ActiveOf(m)) <= MAX_ACTIVE_BORROWS

\* BORROWED records referencing b in the initial state
InitBorrowed(b) ==
    IF b \notin HotBooks /\ b - NumHot <= init_loans THEN 1 ELSE 0

Consistent0 ==
    \A b \in Books : init_avail[b] = book[b].total_copies - InitBorrowed(b)

\* C5: when available_copies = total_copies - (BORROWED records of the book)
\* holds for every book initially, it holds in every committed state.
C5_AvailabilityMatchesLoans ==
    Consistent0 =>
        \A b \in Books :
            book[b].available_copies = book[b].total_copies - BorrowedCount(b)

\* from a consistent start, one loan is out and another has come back
C5_Witness ==
    /\ Consistent0
    /\ \E i, j \in DOMAIN records :
          /\ i > init_loans
          /\ records[i].status = BORROWED
          /\ records[j].status = RETURNED

\* session s executes, in this step, the locked read of return_book for a
\* record the database holds as RETURNED
ReturnsReturned(s) ==
    /\ faults' = faults
    /\ op'[s].kind = "return_book"
    /\ \/ pc[s] = "idle" /\ pc'[s] \notin {"idle", "r_lock"}
       \/ pc[s] = "r_lock" /\ pc'[s] # "r_lock"
    /\ op'[s].borrow_id \in DOMAIN records
    /\ records[op'[s].borrow_id].status = RETURNED

\* C6: return_book on a record that is already RETURNED fails with
\* AlreadyReturnedError and changes neither the book's available_copies
\* nor the record's status and returned_at, at that step and when the
\* failed request is closed.
C6_ReturnTwiceFails ==
    [][\A s \in Sessions :
          /\ ReturnsReturned(s) =>
                /\ result'[s] = "AlreadyReturnedError"
                /\ pc'[s] = "raised"
                /\ book' = book
                /\ records' = records
          /\ (pc[s] = "raised" /\ pc'[s] # "raised") =>
                /\ book' = book
                /\ records' = records]_vars

\* a return has failed on a record returned by an earlier call, after two
\* earlier calls
C6_Witness ==
    \E s \in Sessions :
        /\ pc[s] = "raised"
        /\ result[s] = "AlreadyReturnedError"
        /\ ncalls = 3
        /\ records[op[s].borrow_id].status = RETURNED
        /\ records[op[s].borrow_id].returned_at = 1

\* session s commits a grant in this step
GrantCommits(s) == pc[s] = "b_commit" /\ pc'[s] = "idle"
\* session s commits a return in this step
ReturnCommits(s) == pc[s] = "r_commit" /\ pc'[s] = "idle"

\* C7: a successful borrow_book takes a book from n >= 1 available copies to
\* n - 1 and adds a BORROWED record; the return_book of that record puts
\* available_copies back by one and leaves the record RETURNED with
\* returned_at set; a grant followed by its return, with no other call,
\* restores every book to its initial available_copies.
C7_GrantThenReturn ==
    /\ [][\A s \in Sessions :
            /\ GrantCommits(s) =>
                 LET b == op[s].book_id IN
                 /\ book[b].available_copies >= 1
                 /\ book'[b].available_copies = book[b].available_copies - 1
                 /\ records' = Append(records,
                        [book_id |-> b, member_id |-> op[s].member_id,
                         status |-> BORROWED, returned_at |-> 0])
            /\ ReturnCommits(s) =>
                 LET i == op[s].borrow_id
                     b == records[i].book_id IN
                 /\ records[i].status = BORROWED
                 /\ book'[b].available_copies = book[b].available_copies + 1
                 /\ records'[i].status = RETURNED
                 /\ records'[i].returned_at # 0]_vars
    /\ [](( /\ ncalls = 2
            /\ Len(records) = init_loans + 1
            /\ records[Len(records)].status = RETURNED)
          => /\ records[Len(records)].returned_at # 0
             /\ \A b \in Books : book[b].available_copies = init_avail[b])

\* exactly two calls were made: a grant and the return of that loan
C7_Witness ==
    /\ ncalls = 2
    /\ Len(records) = init_loans + 1
    /\ records[Len(records)].status = RETURNED
    /\ \A s \in Sessions : pc[s] = "idle"

\* session s executes, in this step, the active-loan count of borrow_book
CountsLoans(s) ==
    /\ faults' = faults
    /\ op'[s].kind = "borrow_book"
    /\ \/ pc[s] = "idle" /\ pc'[s] # "idle"
       \/ pc[s] = "b_list" /\ pc'[s] # "b_list"

\* C8: a borrow_book call that fails with a business error changes no book
\* and no borrow record: the failing step and the closing of the request
\* change nothing, only the commit that ends a successful call does; a
\* member with MAX_ACTIVE_BORROWS active loans gets BorrowLimitExceededError.
C8_FailedGrantChangesNothing ==
    [][/\ \A s \in Sessions :
            /\ ( /\ op'[s].kind = "borrow_book"
                 /\ pc[s] # "raised"
                 /\ pc'[s] = "raised"
                 /\ result'[s] \in BusinessErrors )
                 => (book' = book /\ records' = records)
            /\ (pc[s] = "raised" /\ pc'[s] # "raised")
                 => (book' = book /\ records' = records)
            /\ ( /\ CountsLoans(s)
                 /\ Cardinality(ActiveOf(op'[s].member_id))
                        >= MAX_ACTIVE_BORROWS )
                 => /\ result'[s] = "BorrowLimitExceededError"
                    /\ pc'[s] = "raised"
                    /\ book' = book
       /\ (book' # book \/ records' # records) =>
             \E s \in Sessions :
                 /\ GrantCommits(s) \/ ReturnCommits(s)
                 /\ result'[s] = "ok"]_vars

\* a member with five active loans was refused a sixth on a book of which
\* one copy is available, and that copy is still available
C8_Witness ==
    \E s \in Sessions :
        /\ pc[s] = "raised"
        /\ result[s] = "BorrowLimitExceededError"
        /\ op[s].book_id \in HotBooks
        /\ Cardinality(ActiveOf(op[s].member_id)) = MAX_ACTIVE_BORROWS
        /\ init_avail[op[s].book_id] = 1
        /\ book[op[s].book_id].available_copies = 1

\* C9: when func raises a transient error on its first k <= max_retries
\* invocations and then succeeds, the wrapper returns that result and func
\* has been invoked exactly k + 1 times.
C9_RetryUntilSuccess ==
    \A k \in 0..max_retries :
        ( /\ w_pc = "done"
          /\ \A i \in 1..k : IsTransient(w_script[i])
          /\ w_script[k + 1] = "ok" )
        => /\ w_result = [type |-> "return", exc |-> "none", value |-> k + 1]
           /\ w_calls = k + 1

\* two transient failures, then success on the third invocation
C9_Witness ==
    /\ w_pc = "done"
    /\ IsTransient(w_script[1])
    /\ IsTransient(w_script[2])
    /\ w_script[3] = "ok"
    /\ w_calls = 3
    /\ w_result.type = "return"

\* C10: when func raises a transient error on every invocation, the wrapper
\* retries max_retries times and then raises the transient error of the
\* last invocation; it returns no value and raises nothing else.
C10_RetriesExhausted ==
    ( /\ w_pc = "done"
      /\ \A i \in 1..ScriptLen : IsTransient(w_script[i]) )
    => /\ w_retries = max_retries
       /\ w_calls = max_retries + 1
       /\ w_result = [type |-> "raise", exc |-> w_script[w_calls],
                      value |-> w_calls]

\* every invocation failed, the last one with another kind of transient
\* error than the first
C10_Witness ==
    /\ w_pc = "done"
    /\ \A i \in 1..ScriptLen : IsTransient(w_script[i])
    /\ w_script[1] # w_script[max_retries + 1]
    /\ w_result.type = "raise"

\* C11: when func raises a business error (at its first invocation, or after
\* k transient failures) the wrapper raises that same error at once: func
\* is not invoked again and that failure causes no rollback and no wait.
C11_BusinessErrorPassesThrough ==
    \A k \in 0..max_retries :
        ( /\ w_pc = "done"
          /\ \A i \in 1..k : IsTransient(w_script[i])
          /\ w_script[k + 1] \in BusinessErrors )
        => /\ w_result = [type |-> "raise", exc |-> w_script[k + 1],
                          value |-> k + 1]
           /\ w_calls = k + 1
           /\ w_rollbacks = k
           /\ w_retries = k

\* the first invocation raised AlreadyReturnedError and the wrapper is done
C11_Witness ==
    /\ w_pc = "done"
    /\ w_script[1] = "AlreadyReturnedError"
    /\ w_result.exc = "AlreadyReturnedError"
    /\ w_calls = 1
    /\ w_rollbacks = 0

\* timestamps of the admitted checks of client c, in the order of the calls
AdmittedTimes(c) ==
    LET a == SelectSeq(l_log, LAMBDA e : e.client = c /\ e.allowed)
    IN [i \in 1..Len(a) |-> a[i].now]

\* the members of a sequence of timestamps that are later than t
After(times, t) == SelectSeq(times, LAMBDA x : x > t)

NonDecreasing(times) ==
    \A i \in 1..(Len(times) - 1) : times[i] <= times[i + 1]

\* C12: once N = requests_per_minute checks of a client have been admitted
\* within one 60-second window, a further check of that client inside that
\* window is rejected; when those N are all that was admitted, a check 61
\* seconds (or more) after the first of them is admitted.
C12_WindowFillsAndReopens ==
    [][Len(l_log') = Len(l_log) + 1 =>
         LET e == l_log'[Len(l_log')]
             h == AdmittedTimes(e.client)
             N == requests_per_minute
         IN /\ (Len(h) >= N /\ e.now < h[Len(h) - N + 1] + WINDOW)
                  => ~e.allowed
            /\ ( /\ Len(h) = N
                 /\ h[N] < h[1] + WINDOW
                 /\ e.now >= h[1] + WINDOW + 1 )
                  => e.allowed]_vars

\* a ceiling of two: two checks admitted, a third rejected inside the
\* window, a fourth admitted 61 seconds after the first
C12_Witness ==
    /\ requests_per_minute = 2
    /\ Len(l_log) = 4
    /\ \A i \in 1..4 : l_log[i].client = 1
    /\ l_log[1].allowed /\ l_log[2].allowed
    /\ ~l_log[3].allowed
    /\ l_log[3].now < l_log[1].now + WINDOW
    /\ l_log[4].allowed
    /\ l_log[4].now = l_log[1].now + WINDOW + 1

\* C13 as stated: for every identity, at most requests_per_minute admitted
\* checks lie within the last 60 seconds, and the identity's queue holds
\* exactly those admitted timestamps, in non-decreasing order.
C13_QueueHoldsLastMinute ==
    \A c \in ClientIds :
        LET recent == After(AdmittedTimes(c), clock - WINDOW)
        IN /\ Len(recent) <= requests_per_minute
           /\ WindowOf(clients, c) = recent
           /\ NonDecreasing(WindowOf(clients, c))

\* the clock value of the latest check of client c
LastCheck(c) ==
    LET mine == SelectSeq(l_log, LAMBDA e : e.client = c)
    IN IF mine = <<>> THEN 0 ELSE mine[Len(mine)].now

\* C13 amended: for every identity, at most requests_per_minute admitted
\* checks lie within the last 60 seconds, and the identity's queue holds
\* exactly the admitted timestamps later than 60 seconds before that
\* identity's latest check, in non-decreasing order; a rejected check adds
\* nothing to the queue.
C13_QueueHoldsMinuteBeforeLastCheck ==
    \A c \in ClientIds :
        /\ Len(After(AdmittedTimes(c), clock - WINDOW)) <= requests_per_minute
        /\ WindowOf(clients, c) =
               After(AdmittedTimes(c), LastCheck(c) - WINDOW)
        /\ NonDecreasing(WindowOf(clients, c))
        /\ Len(WindowOf(clients, c)) <= requests_per_minute

\* a client has been rejected once, and a timestamp exactly 60 seconds old
\* has been evicted from its queue by a later, admitted check
C13_Witness ==
    \E c \in ClientIds :
        /\ \E i \in DOMAIN l_log : l_log[i].client = c /\ ~l_log[i].allowed
        /\ l_log[Len(l_log)].client = c
        /\ l_log[Len(l_log)].allowed
        /\ \E t \in {AdmittedTimes(c)[i] : i \in DOMAIN AdmittedTimes(c)} :
              t = clock - WINDOW
        /\ Len(WindowOf(clients, c)) < Len(AdmittedTimes(c))

\* C14: every request on a loan route has passed the admission-control
\* check before the service is called, and a request that admission control
\* rejected is answered 429 without reaching the service.
C14_AdmissionBeforeCoordinator ==
    /\ (http.route \in BorrowRoutes /\ http.pc \in {"endpoint", "responded"})
          => http.checked
    /\ (http.checked /\ http.pc = "responded"
            /\ ~l_log[Len(l_log)].allowed)
          => (http.status = 429 /\ http.exc = "HTTPException")

\* C15: a borrow_book or return_book call that db_retry gave up on (its
\* last transient error reaches the endpoint) is answered with status 503.
C15_ExhaustionAnswers503 ==
    ( /\ http.pc = "responded"
      /\ http.route \in BorrowRoutes
      /\ http.exc \in TransientErrors )
    => http.status = 503

\* C16: at the boundary the three not-found errors give 404, the four
\* conflict errors give 409, a rejection by the limiter gives 429, and no
\* failure of the service is answered with a success status.
C16_ErrorMapping ==
    http.pc = "responded" =>
        /\ http.exc \in {"MemberNotFoundError", "BookNotFoundError",
                         "BorrowRecordNotFoundError"} => http.status = 404
        /\ http.exc \in {"InventoryUnavailableError",
                         "BorrowLimitExceededError", "AlreadyReturnedError",
                         "ActiveBorrowExistsError"} => http.status = 409
        /\ (http.checked /\ ~l_log[Len(l_log)].allowed) => http.status = 429
        /\ http.exc # "ok" => http.status >= 400
        /\ http.exc = "ok" => http.status \in {200, 201}

\* a loan request has been answered 409 for ActiveBorrowExistsError after
\* an earlier request was rejected by the limiter
C16_Witness ==
    /\ http.pc = "responded"
    /\ http.route = "create_borrow"
    /\ http.exc = "ActiveBorrowExistsError"
    /\ http.status = 409
    /\ \E i \in DOMAIN l_log : ~l_log[i].allowed

\* session s executes, in this step, the statement at position p of its call
Executes(s, p) == pc[s] = p /\ pc'[s] # p /\ faults' = faults

\* C17: borrow_book tests the limit, the member, the duplicate active loan,
\* the book and the stock in that order: each test that finds its failure
\* condition raises its own error whatever the later conditions are, and a
\* call that raises one of the first three errors holds no book row lock.
C17_CheckOrder ==
    [][\A s \in Sessions :
          /\ CountsLoans(s) =>
                LET m == op'[s].member_id IN
                /\ LimitReached(Cardinality(ActiveOf(m)))
                      => result'[s] = "BorrowLimitExceededError"
                /\ (~LimitReached(Cardinality(ActiveOf(m))) /\ m \notin Members)
                      => result'[s] = "MemberNotFoundError"
          /\ (Executes(s, "b_active")
                 /\ ActiveFor(op[s].book_id, op[s].member_id) # {})
                => result'[s] = "ActiveBorrowExistsError"
          /\ (Executes(s, "b_lock") /\ op[s].book_id \notin Books)
                => result'[s] = "BookNotFoundError"
          /\ (Executes(s, "b_lock") /\ result'[s] = "InventoryUnavailableError")
                => op[s].book_id \in Books
          /\ ( /\ op'[s].kind = "borrow_book"
               /\ pc'[s] = "raised"
               /\ result'[s] \in {"BorrowLimitExceededError",
                                  "MemberNotFoundError",
                                  "ActiveBorrowExistsError"} )
                => held_book'[s] = {}]_vars

\* C18: in every borrow_book execution the available_copies value that is
\* tested against 1 and decremented is the value of the row while the
\* session holds the row lock: the call is refused exactly when the locked
\* row has no copy, and otherwise decrements the locked row's value.
C18_StockReadUnderLock ==
    [][\A s \in Sessions :
          (Executes(s, "b_lock") /\ op[s].book_id \in Books) =>
              LET b == op[s].book_id IN
              /\ b \in held_book'[s]
              /\ (result'[s] = "InventoryUnavailableError")
                    <=> (book[b].available_copies < 1)
              /\ pc'[s] = "b_flush"
                    => bk'[s].available_copies = book[b].available_copies - 1
      ]_vars

\* C19: the two writes of a grant reach the committed tables together or
\* not at all: a step lowers a book's available_copies exactly when it adds
\* the BORROWED record of that book, it lowers it by one, and a step in
\* which a call fails or is rolled back for a retry changes neither table.
C19_GrantIsAtomic ==
    [][/\ \A b \in Books :
            (book'[b].available_copies < book[b].available_copies)
            <=> ( /\ Len(records') = Len(records) + 1
                  /\ records'[Len(records')].book_id = b )
       /\ Len(records') # Len(records) =>
            LET r == records'[Len(records')] IN
            /\ records' = Append(records, r)
            /\ r.status = BORROWED
            /\ book'[r.book_id].available_copies
                  = book[r.book_id].available_copies - 1
       /\ \A s \in Sessions :
            ( \/ pc[s] # "raised" /\ pc'[s] = "raised"
              \/ retries'[s] > retries[s]
              \/ faults' # faults )
            => (book' = book /\ records' = records)]_vars

\* a grant that was rolled back at its flush (StaleDataError, after the
\* decrement and before the insert) and then committed on the retry
C19_Witness ==
    \E s \in Sessions :
        /\ op[s].kind = "borrow_book"
        /\ retries[s] = 1
        /\ faults = 0
        /\ pc[s] = "idle"
        /\ result[s] = "ok"
        /\ records[Len(records)].book_id = op[s].book_id
        /\ records[Len(records)].status = BORROWED

\* the book a session's call works on
BookOf(s) ==
    IF op[s].kind = "borrow_book" THEN op[s].book_id
    ELSE records[op[s].borrow_id].book_id

WaitsForBook(s) ==
    IF pc[s] = "b_lock" THEN op[s].book_id
    ELSE IF pc[s] = "r_book" THEN records[op[s].borrow_id].book_id
    ELSE NoId

WaitsForRec(s) == IF pc[s] = "r_lock" THEN op[s].borrow_id ELSE NoId

WaitsFor(s, t) ==
    /\ s # t
    /\ \/ WaitsForBook(s) \in held_book[t]
       \/ WaitsForRec(s) \in held_rec[t]

\* a set of sessions each of which waits for a member of the set
LockCycle ==
    \E S \in SUBSET Sessions \ {{}} : \A s \in S : \E t \in S : WaitsFor(s, t)

\* C21: borrow_book holds no borrow_record lock, return_book holds a book
\* lock only while it holds the lock of its record, and no state contains a
\* cycle of sessions each waiting for a lock held by the next
C21_NoLockCycle ==
    /\ \A s \in Sessions :
         /\ op[s].kind = "borrow_book" => held_rec[s] = {}
         /\ op[s].kind = "return_book" =>
              /\ held_rec[s] \subseteq {op[s].borrow_id}
              /\ held_book[s] # {} => held_rec[s] = {op[s].borrow_id}
    /\ ~LockCycle

\* a return that holds its record waits for the book a grant holds
C21_Witness ==
    \E s, t \in Sessions :
        /\ WaitsFor(s, t)
        /\ op[s].kind = "return_book" /\ held_rec[s] # {}
        /\ op[t].kind = "borrow_book" /\ held_book[t] # {}

\* ------------------------------------------------------------------- C22
\* the step is the commit of a return_book call for record i
ReturnsRecord(s, i) == ReturnCommits(s) /\ op[s].borrow_id = i

\* C22: a record is created BORROWED with returned_at unset; the only change
\* a record ever sees is BORROWED to RETURNED with returned_at set, made by
\* the commit of a return_book call for it; a RETURNED record never changes
\* and no record disappears
C22_StatusOneWay ==
    [][/\ Len(records') >= Len(records)
       /\ \A i \in DOMAIN records' \ DOMAIN records :
            records'[i].status = BORROWED /\ records'[i].returned_at = 0
       /\ \A i \in DOMAIN records :
            \/ records'[i] = records[i]
            \/ /\ records[i].status = BORROWED
               /\ records'[i] = [records[i] EXCEPT !.status = RETURNED,
                                                   !.returned_at = records'[i].returned_at]
               /\ records'[i].returned_at # 0
               /\ \E s \in Sessions : ReturnsRecord(s, i) /\ result'[s] = "ok"]_vars

\* a record created by a grant has been returned and a later return_book
\* call for it has ended
C22_Witness ==
    \E i \in DOMAIN records, s \in Sessions :
        /\ i > init_loans
        /\ records[i].status = RETURNED /\ records[i].returned_at # 0
        /\ op[s].kind = "return_book" /\ op[s].borrow_id = i
        /\ result[s] = "AlreadyReturnedError"

\* ------------------------------------------------------------------- C23
\* db_retry caught a transient error of s's call and goes round its loop
RetriesCall(s) ==
    /\ pc[s] # "raised"
    /\ retries'[s] = retries[s] + 1
    /\ pc'[s] = EntryPc(op'[s].kind)

\* the tables differ by exactly one grant of book b to member m
OneGrant(b, m) ==
    /\ book'[b].available_copies = book[b].available_copies - 1
    /\ \A c \in Books \ {b} : book'[c] = book[c]
    /\ records' = Append(records, [book_id |-> b, member_id |-> m,
                                   status |-> BORROWED, returned_at |-> 0])

\* the tables differ by exactly one return of record i
OneReturn(i) ==
    /\ records[i].status = BORROWED
    /\ book'[records[i].book_id].available_copies =
           book[records[i].book_id].available_copies + 1
    /\ \A c \in Books \ {records[i].book_id} : book'[c] = book[c]
    /\ DOMAIN records' = DOMAIN records
    /\ \A j \in DOMAIN records \ {i} : records'[j] = records[j]
    /\ records'[i].status = RETURNED

\* C23: the step in which db_retry handles a transient error leaves both
\* tables as they are, drops the session's locks and pending objects and
\* starts the call again; a call that commits after k >= 1 such steps changes
\* the tables by exactly one grant or one return
C23_RetryRollsBack ==
    [][\A s \in Sessions :
         /\ RetriesCall(s) =>
              /\ book' = book /\ records' = records
              /\ held_book'[s] = {} /\ held_rec'[s] = {}
              /\ bk'[s] = NoBook
         /\ GrantCommits(s) /\ retries[s] >= 1 =>
              OneGrant(op[s].book_id, op[s].member_id)
         /\ ReturnCommits(s) /\ retries[s] >= 1 =>
              OneReturn(op[s].borrow_id)]_vars

\* a grant succeeded after db_retry handled a transient error of the call,
\* and the tables show one grant
C23_Witness ==
    \E s \in Sessions :
        /\ op[s].kind = "borrow_book" /\ pc[s] = "idle"
        /\ result[s] = "ok" /\ retries[s] >= 1
        /\ book[op[s].book_id].available_copies =
               init_avail[op[s].book_id] - 1
        /\ Len(records) = init_loans + 1

\* ------------------------------------------------------------------- C27
\* the only two calls are return_book calls in two sessions for the same
\* record, which was BORROWED initially, and no statement hit a storage fault
ReturnRace(s, t) ==
    /\ TwoCallsDone(s, t)
    /\ faults = 0
    /\ op[s].kind = "return_book"
    /\ op[t].kind = "return_book"
    /\ op[s].borrow_id = op[t].borrow_id
    /\ op[s].borrow_id \in 1..init_loans

\* C27: two concurrent return_book calls for one BORROWED record: under
\* every interleaving exactly one succeeds, the other fails with
\* AlreadyReturnedError, and available_copies is incremented exactly once
C27_ReturnRace ==
    \A s, t \in Sessions :
        ReturnRace(s, t) =>
            LET i == op[s].borrow_id
                b == records[i].book_id
            IN /\ {result[s], result[t]} = {"ok", "AlreadyReturnedError"}
               /\ book[b].available_copies = init_avail[b] + 1
               /\ records[i].status = RETURNED

\* the race has been run: the second call waited for the record lock and
\* still has its request open
C27_Witness ==
    \E s, t \in Sessions :
        /\ ReturnRace(s, t)
        /\ result[s] = "ok"
        /\ pc[t] = "raised"

\* ------------------------------------------------------------------- C30
\* C30: whatever func's invocations end with, the wrapper invokes func at
\* most max_retries + 1 times and the call ends
C30_RetryTerminates ==
    /\ [](w_calls <= max_retries + 1)
    /\ [](w_pc = "done" => w_calls >= 1)
    /\ <>(w_pc = "done")

\* func failed max_retries times with transient errors and its last
\* permitted invocation raised a business error
C30_Witness ==
    /\ w_pc = "done"
    /\ w_calls = max_retries + 1
    /\ w_rollbacks = max_retries
    /\ w_result.type = "raise"
    /\ w_result.exc \in BusinessErrors

\* ------------------------------------------------------------------- C24
\* no call is between the end of func and the end of the wrapper
Quiescent == \A t \in Sessions : m_thread[t].pc # "measure"

\* the wrapper hands its caller what func returned or raised
ResultPassesThrough ==
    \A t \in Sessions :
        m_thread[t].pc = "done" => m_thread[t].result = m_thread[t].inner

\* every borrow_book call counted once, as a success or as a failure
CountsExact ==
    Quiescent =>
        /\ metrics.borrow_success_count = m_hist.borrow_ok
        /\ metrics.borrow_failure_count = m_hist.borrow_failed

\* the gauge went up by one per grant and down by one per return
GaugeExact ==
    Quiescent =>
        metrics.active_borrows_gauge = m_hist.borrow_ok - m_hist.return_ok

\* C24: each borrow_book call increments exactly one of borrow_success_count
\* and borrow_failure_count exactly once, whatever the number of invocations
\* db_retry made; the call's result or error reaches the caller unchanged; a
\* successful grant raises active_borrows_gauge by one and a successful
\* return lowers it by one
C24_MetricsObserve == ResultPassesThrough /\ CountsExact /\ GaugeExact

\* ------------------------------------------------------------------- C25
\* session s commits a grant or a return of book b while it holds b's lock
CommitsUnderLock(s, b) ==
    /\ b \in held_book[s]
    /\ \/ GrantCommits(s) /\ op[s].book_id = b
       \/ /\ ReturnCommits(s)
          /\ records[op[s].borrow_id].book_id = b
          /\ op[s].borrow_id \in held_rec[s]

\* C25: available_copies changes, and a BORROWED record is added or changes,
\* only in the commit of a borrow_book or return_book call whose session
\* holds the row lock; no other operation changes them
C25_OnlyUnderLock ==
    [][/\ \A b \in Books :
            book'[b].available_copies # book[b].available_copies =>
                \E s \in Sessions : CommitsUnderLock(s, b)
       /\ records' # records =>
            \E s \in Sessions, b \in Books : CommitsUnderLock(s, b)]_vars

\* ------------------------------------------------------------------- C26
\* the admitted checks of client c whose timestamp lies in [t, t + WINDOW)
AdmittedWithin(c, t) ==
    {i \in DOMAIN l_log :
        /\ l_log[i].client = c /\ l_log[i].allowed
        /\ t <= l_log[i].now /\ l_log[i].now < t + WINDOW}

\* C26: under every interleaving of the statements of concurrent is_allowed
\* calls, no 60-second window holds more than requests_per_minute admitted
\* checks of one client, and no call fails on the shared queue
C26_ThreadSafe ==
    /\ \A c \in ClientIds : \A i \in DOMAIN l_log :
         Cardinality(AdmittedWithin(c, l_log[i].now)) <= requests_per_minute
    /\ \A t \in Sessions : l_thread[t].pc # "IndexError"

====
